---- MODULE Spec2Model ----
(***************************************************************************)
(* Model of claude-code-slack: the worker (src/worker) that receives Slack *)
(* requests and enqueues task files through the GitHub contents API, and   *)
(* the daemon (src/daemon) that polls the task files, runs the agent,      *)
(* posts the result to Slack and deletes the task file.                    *)
(*                                                                         *)
(* A string is a sequence of tokens (characters, or opaque words such as a *)
(* mention "<@U1>"); the empty string is << >>.  A dict is a function from  *)
(* keys to values.  The HTTP peers (GitHub, Slack) are modelled by the     *)
(* outcomes a call can have: "ok", "error" (a non-success status or a     *)
(* platform 'not ok' reply) and "exception" (the transport raised).       *)
(***************************************************************************)
EXTENDS Integers, Sequences, FiniteSets, TLC

VARIABLES
  faults,     \* calls that have failed so far (an error reply or an exception)
  config,     \* the environment variables of both processes
  limit,      \* requests the worker receives in this run
  repo,       \* GitHub: branch -> (file name in tasks/ -> content)
  nreq,       \* requests received by the worker so far
  lastReq,    \* the last request (its timestamp, whether Slack signed it, the bot
              \* id and subtype of its event) and the status the endpoint answered
  disp,       \* worker: the dispatch coroutine of each request
  dpc,        \* daemon: position of poll_loop / process_task
  pending,    \* daemon: items of the listing still to iterate
  cur,        \* daemon: the task being processed (with _sha, _path)
  delivered,  \* daemon: how the result delivery of cur ended
  output,     \* daemon: how the agent ended for cur, and the text run_claude returned,
              \* until process_task has passed it to the delivery
  httpStatus, \* daemon: status of the last GitHub response it received
  lastRef,    \* daemon: branch the last GitHub read request addressed
  pollError,  \* daemon: origin of the exception the loop logged last
  afterCrash, \* daemon: "first" during the first poll iteration after a restart
  crashes,    \* daemon: process crashes so far
  live,       \* history: task ids enqueued with success and not deleted since
  redo,       \* history: paths delivered but not deleted when the daemon crashed
  reprocessed,\* history: paths of redo processed again by the first poll after restart
  urlPosts,   \* history: posts of the daemon to each command's response_url
  executed,   \* history: ids of the tasks the agent has been run for, in the
              \* specification that records them
  call,       \* a function of the daemon called on its own: its name and argument
  ret         \* the value that call returned

vars == <<faults, config, limit, repo, nreq, lastReq, disp, dpc, pending, cur, delivered,
          output, httpStatus, lastRef, pollError, afterCrash, crashes, live, redo,
          reprocessed, urlPosts, executed, call, ret>>

setupVars == <<config, limit, call, ret, executed>>
workerVars == <<nreq, lastReq, disp>>
daemonVars == <<dpc, pending, cur, delivered, output, httpStatus, lastRef, pollError, afterCrash,
                crashes, redo, reprocessed, urlPosts>>

-----------------------------------------------------------------------------
(* Bounds *)

MaxRequests == 1
MaxCrashes == 1
MaxCount == 2
MaxFaults == 1
MaxInbound == 1
MaxMailbox == 2

Largest(S) == CHOOSE n \in S : \A m \in S : m <= n

Commands == 1..Largest({MaxRequests, MaxInbound, MaxMailbox})

Sat(n) == IF n < MaxCount THEN n + 1 ELSE n

-----------------------------------------------------------------------------
(* Strings and dicts *)

EmptyStr == << >>

None == [none |-> TRUE]

Upper == [h |-> "H", e |-> "E", l |-> "L", p |-> "P", s |-> "S", t |-> "T",
          a |-> "A", u |-> "U", i |-> "I", n |-> "N", g |-> "G"]

LowerChar(ch) ==
  IF \E k \in DOMAIN Upper : Upper[k] = ch
  THEN CHOOSE k \in DOMAIN Upper : Upper[k] = ch
  ELSE ch

\* variant of Lower that keeps the letter case
KeepCase(s) == s

Lower(s) == [i \in 1..Len(s) |-> LowerChar(s[i])]

IsSpace(ch) == ch \in {" ", "\t", "\n"}

RECURSIVE LStrip(_)
LStrip(s) == IF s # << >> /\ IsSpace(Head(s)) THEN LStrip(Tail(s)) ELSE s

RECURSIVE RStrip(_)
RStrip(s) ==
  IF s # << >> /\ IsSpace(s[Len(s)]) THEN RStrip(SubSeq(s, 1, Len(s) - 1)) ELSE s

Strip(s) == RStrip(LStrip(s))

EndsWith(s, suffix) ==
  /\ Len(s) >= Len(suffix)
  /\ SubSeq(s, Len(s) - Len(suffix) + 1, Len(s)) = suffix

Get(d, key, default) == IF key \in DOMAIN d THEN d[key] ELSE default

Update(d, key, val) == [k \in DOMAIN d \cup {key} |-> IF k = key THEN val ELSE d[k]]

Remove(d, key) == [k \in DOMAIN d \ {key} |-> d[k]]

-----------------------------------------------------------------------------
(* JSON text of a dict: "{", then key and value in turn, then "}" *)

TaskKeys == <<"task_id", "prompt", "requested_by", "channel_id", "thread_ts",
              "response_url", "created_at">>

JsonDumps(d, keys) ==
  <<"{">> \o [i \in 1..(2 * Len(keys)) |->
                IF i % 2 = 1 THEN keys[(i + 1) \div 2] ELSE d[keys[i \div 2]]]
          \o <<"}">>

JsonWellFormed(text) ==
  /\ Len(text) >= 2
  /\ (Len(text) - 2) % 2 = 0
  /\ text[1] = "{"
  /\ text[Len(text)] = "}"

\* json.loads, for a well-formed text (it raises JSONDecodeError otherwise)
JsonLoads(text) ==
  LET n == (Len(text) - 2) \div 2
  IN  [k \in {text[2 * i] : i \in 1..n} |->
         text[1 + 2 * (CHOOSE i \in 1..n : text[2 * i] = k)]]

\* a foreign or damaged file: cut off in the middle of the first entry
Malformed == <<"{", "task_id">>

-----------------------------------------------------------------------------
(* GitHub contents API, as far as the two processes use it *)

Branches == {"main", "dev"}
DefaultBranch == "main"

TaskIds == {"a", "c"}
TASKS_PATH == <<"tasks">>
JsonSuffix == <<".json">>

TaskName(task_id) == task_id \o JsonSuffix
PathOf(name) == TASKS_PATH \o <<"/">> \o name
NameOf(path) == SubSeq(path, Len(TASKS_PATH) + 2, Len(path))

GitKeep == <<".gitkeep">>
ForeignName == <<"b">> \o JsonSuffix

\* the directory listing is ordered by name
NameOrder == <<GitKeep, TaskName(<<"a">>), ForeignName, TaskName(<<"c">>)>>

Sha(content) == [blob |-> content]

Item(b, name) == [name |-> name, path |-> PathOf(name), sha |-> Sha(repo[b][name])]

\* GET /contents/tasks?ref=b
GhList(b) ==
  LET present == SelectSeq(NameOrder, LAMBDA n : n \in DOMAIN repo[b])
  IN  [i \in 1..Len(present) |-> Item(b, present[i])]

\* GET /contents/<path>?ref=b
GhGet(b, path) ==
  IF NameOf(path) \in DOMAIN repo[b]
  THEN [status |-> 200, content |-> repo[b][NameOf(path)],
        sha |-> Sha(repo[b][NameOf(path)])]
  ELSE [status |-> 404]

\* PUT /contents/<path>: creates an absent file, updates a present one when the
\* payload carries its current sha
GhPutStatus(b, path, payload) ==
  IF NameOf(path) \in DOMAIN repo[b]
  THEN IF "sha" \in DOMAIN payload /\ payload.sha = Sha(repo[b][NameOf(path)])
       THEN 200 ELSE 409
  ELSE IF "sha" \in DOMAIN payload THEN 422 ELSE 201

\* DELETE /contents/<path>: removes the file when the payload carries its sha
GhDeleteStatus(b, path, payload) ==
  IF NameOf(path) \in DOMAIN repo[b]
  THEN IF payload.sha = Sha(repo[b][NameOf(path)]) THEN 200 ELSE 409
  ELSE 404

\* the outcomes a call can have while n calls have failed
Outcomes(n) == IF n < MaxFaults THEN {"ok", "error", "exception"} ELSE {"ok"}
HttpOutcomes == Outcomes(faults)

Failed(o) == IF o = "ok" THEN 0 ELSE 1

-----------------------------------------------------------------------------
(* Worker: request verification (src/worker/main.py) *)

ReplayWindow == 300

\* time.time() when the request is handled
NowTime == 10 * ReplayWindow

Abs(x) == IF x < 0 THEN 0 - x ELSE x

\* a header value float() accepts carries the number it parses to
IsFloat(timestamp) == "num" \in DOMAIN timestamp

Hmac(key, msg) == [key |-> key, msg |-> msg]

SigBase(timestamp, body) == <<"v0:", timestamp, ":", body>>

\* variant of verify_slack_signature without the replay window
verify_hmac_only(body, timestamp, signature) ==
  \/ config.SLACK_SIGNING_SECRET = EmptyStr
  \/ <<"v0=", Hmac(config.SLACK_SIGNING_SECRET, SigBase(timestamp, body))>> = signature

verify_slack_signature(body, timestamp, signature) ==
  IF config.SLACK_SIGNING_SECRET = EmptyStr
  THEN TRUE
  ELSE IF ~IsFloat(timestamp)
  THEN FALSE
  ELSE IF Abs(NowTime - timestamp.num) > ReplayWindow
  THEN FALSE
  ELSE <<"v0=", Hmac(config.SLACK_SIGNING_SECRET, SigBase(timestamp, body))>> = signature

-----------------------------------------------------------------------------
(* Worker: delivery and dispatch (src/worker/job_handler.py) *)

Help == <<"h", "e", "l", "p">>
Status == <<"s", "t", "a", "t", "u", "s">>
Ping == <<"p", "i", "n", "g">>

Mention == "<@U1>"

\* re.sub(r"<@[A-Z0-9]+>\s*", "", text): a mention and the white space after it
RECURSIVE StripMentions(_)
StripMentions(s) ==
  IF s = << >> THEN << >>
  ELSE IF Head(s) = Mention THEN StripMentions(LStrip(Tail(s)))
  ELSE <<Head(s)>> \o StripMentions(Tail(s))

UrlOf(c) == <<"hooks", c>>
CmdOfUrl(url) == url[2]

\* variant of Posted that counts no post
NotPosted(posts, url) == posts

Posted(posts, url) == [posts EXCEPT ![CmdOfUrl(url)] = Sat(posts[CmdOfUrl(url)])]

\* JobHandler._respond with the outcome o of its POST: how the call ends
RespondEnd(channel_id, response_url, o) ==
  IF response_url # EmptyStr
  THEN IF o = "exception" THEN "raised" ELSE "url"
  ELSE IF channel_id # EmptyStr /\ config.WORKER_BOT_TOKEN # EmptyStr
  THEN IF o = "exception" THEN "raised"
       ELSE IF o = "ok" THEN "channel" ELSE "logged"
  ELSE "nothing"

NoSlot == [pc |-> "none"]

Finished(slot, reply, end) ==
  [pc |-> IF end = "raised" THEN "raised" ELSE "done", text |-> slot.text,
   produced |-> slot.produced, writes |-> slot.writes, reply |-> reply, sent |-> end]

NewTask(slot, task_id, c) ==
  [task_id |-> task_id, prompt |-> slot.text, requested_by |-> slot.user_id,
   channel_id |-> slot.channel_id, thread_ts |-> slot.thread_ts,
   response_url |-> slot.response_url, created_at |-> <<c>>]

\* the built-in commands of JobHandler.dispatch
IsHelp(text_lower) == text_lower \in {Help, EmptyStr}
IsStatus(text_lower) == text_lower \in {Status, Ping}

\* JobHandler.dispatch up to its first await that reads the store: the built-in
\* replies, or _dispatch_to_daemon up to write_file's _get_file_sha (outcome o,
\* uuid task_id)
dispatch(slot, c, o, task_id) ==
  LET text_lower == Strip(Lower(slot.text))
      got == GhGet(config.GITHUB_BRANCH, PathOf(TaskName(task_id)))
      called == [slot EXCEPT !.produced = slot.produced + 1]
  IN  IF IsHelp(text_lower)
      THEN Finished(slot, "help", RespondEnd(slot.channel_id, slot.response_url, o))
      ELSE IF IsStatus(text_lower)
      THEN Finished(slot, "status", RespondEnd(slot.channel_id, slot.response_url, o))
      ELSE IF o = "exception"
      THEN Finished(called, "none", "raised")
      ELSE [called EXCEPT
              !.pc = "put",
              !.task_id = task_id,
              !.content = JsonDumps(NewTask(slot, task_id, c), TaskKeys),
              !.sha = IF o = "ok" /\ got.status = 200 THEN got.sha ELSE None]

Dispatch(c) ==
  /\ disp[c].pc = "start"
  /\ \E o \in HttpOutcomes, task_id \in {<<t>> : t \in TaskIds} :
       /\ disp' = [disp EXCEPT ![c] = dispatch(disp[c], c, o, task_id)]
       /\ faults' = faults + Failed(o)
  /\ UNCHANGED <<setupVars, repo, nreq, lastReq, daemonVars, live>>

Take(s, n) == SubSeq(s, 1, IF Len(s) < n THEN Len(s) ELSE n)

PutPayload(slot) ==
  LET base == [message |-> <<"Task ">> \o slot.task_id \o <<": ">> \o Take(slot.text, 50),
               content |-> slot.content,
               branch |-> config.GITHUB_BRANCH]
  IN  IF slot.sha # None THEN Update(base, "sha", slot.sha) ELSE base

\* GitHubClient.write_file from its PUT on, and what _dispatch_to_daemon does
\* with the result: nothing on success, _respond with the error otherwise
WriteFile(c) ==
  /\ disp[c].pc = "put"
  /\ LET slot == disp[c]
         task_path == PathOf(TaskName(slot.task_id))
         payload == PutPayload(slot)
         wrote == [slot EXCEPT !.writes = slot.writes + 1]
     IN  \E o \in HttpOutcomes :
         \E o2 \in Outcomes(faults + Failed(o)) :
           LET status == IF o = "ok"
                         THEN GhPutStatus(payload.branch, task_path, payload)
                         ELSE 500
               success == o # "exception" /\ status \in {200, 201}
           IN  /\ repo' = IF success
                          THEN [repo EXCEPT ![payload.branch] =
                                  Update(repo[payload.branch], TaskName(slot.task_id),
                                         payload.content)]
                          ELSE repo
               /\ live' = IF success THEN live \cup {TaskName(slot.task_id)} ELSE live
               /\ disp' = [disp EXCEPT ![c] =
                    IF o = "exception" THEN Finished(wrote, "none", "raised")
                    ELSE IF success THEN Finished(wrote, "none", "nothing")
                    ELSE Finished(wrote, "error",
                                  RespondEnd(slot.channel_id, slot.response_url, o2))]
               /\ faults' = faults + Failed(o) + (IF success THEN 0 ELSE Failed(o2))
  /\ UNCHANGED <<setupVars, nreq, lastReq, daemonVars>>

-----------------------------------------------------------------------------
(* Worker: the inbound endpoint (src/worker/main.py) *)

FormType == "application/x-www-form-urlencoded"
JsonType == "application/json"

NewSlot(text, user_id, channel_id, response_url, thread_ts) ==
  [pc |-> "start", text |-> text, user_id |-> user_id, channel_id |-> channel_id,
   response_url |-> response_url, thread_ts |-> thread_ts, produced |-> 0,
   writes |-> 0, task_id |-> EmptyStr, content |-> EmptyStr, sha |-> None]

\* handle_slash_command: the coroutine it creates
handle_slash_command(payload) ==
  NewSlot(Strip(Get(payload, "text", EmptyStr)),
          Get(payload, "user_id", <<"unknown">>),
          Get(payload, "channel_id", EmptyStr),
          Get(payload, "response_url", EmptyStr),
          EmptyStr)

\* handle_event up to its call of dispatch (no await before it)
handle_event(event) ==
  NewSlot(Strip(StripMentions(Strip(Get(event, "text", EmptyStr)))),
          Get(event, "user", <<"unknown">>),
          Get(event, "channel", EmptyStr),
          EmptyStr,
          IF Get(event, "thread_ts", EmptyStr) # EmptyStr
          THEN event.thread_ts ELSE Get(event, "ts", EmptyStr))

\* variant of IsBotEvent that looks at the subtype only
IsBotSubtype(event) == Get(event, "subtype", "") = "bot_message"

\* "Ignore bot messages to prevent loops"
IsBotEvent(event) ==
  \/ Get(event, "bot_id", EmptyStr) # EmptyStr
  \/ Get(event, "subtype", "") = "bot_message"

\* what slack_events answers and the coroutine it starts, if any
Routed(r) ==
  IF ~verify_slack_signature(r.body, r.timestamp, r.signature)
  THEN [status |-> 401, slot |-> NoSlot]
  ELSE IF r.content_type = FormType
  THEN [status |-> 200, slot |-> handle_slash_command(r.body)]
  ELSE IF Get(r.body, "type", "") = "url_verification"
  THEN [status |-> 200, slot |-> NoSlot]
  ELSE IF Get(r.body, "type", "") = "event_callback"
  THEN IF IsBotEvent(Get(r.body, "event", << >>))
       THEN [status |-> 200, slot |-> NoSlot]
       ELSE [status |-> 200, slot |-> handle_event(Get(r.body, "event", << >>))]
  ELSE [status |-> 200, slot |-> NoSlot]

(* The requests Slack and others send *)

SlackSecret == <<"s3cr3t">>

Prompt == <<"l", "s">>

SlashBody(text, c) ==
  [text |-> text, user_id |-> <<"U1">>, channel_id |-> <<"C1">>,
   response_url |-> UrlOf(c)]

EventBody(event) == [type |-> "event_callback", event |-> event]

UserEvent(text, c) ==
  [text |-> text, user |-> <<"U1">>, channel |-> <<"C1">>, ts |-> <<"ts", c>>]

Signed(content_type, body, timestamp, key) ==
  [content_type |-> content_type, body |-> body, timestamp |-> timestamp,
   signature |-> IF key = EmptyStr THEN EmptyStr
                 ELSE <<"v0=", Hmac(key, SigBase(timestamp, body))>>]

Fresh == [num |-> NowTime]

\* requests with a valid signature that the queue sees
QueueRequests(c) ==
  { Signed(FormType, SlashBody(Prompt, c), Fresh, SlackSecret),
    Signed(JsonType, EventBody(UserEvent(<<Mention, " ">> \o Prompt, c)), Fresh,
           SlackSecret) }

\* requests taken in this run
RequestLimit == limit

SlackEvents(r) ==
  /\ nreq < RequestLimit
  /\ nreq' = nreq + 1
  /\ lastReq' = [status |-> Routed(r).status, timestamp |-> r.timestamp,
                 bot_id |-> Get(Get(r.body, "event", << >>), "bot_id", EmptyStr),
                 subtype |-> Get(Get(r.body, "event", << >>), "subtype", ""),
                 signed |-> r.signature = Signed(r.content_type, r.body, r.timestamp,
                                                 SlackSecret).signature]
  /\ disp' = [disp EXCEPT ![nreq + 1] = Routed(r).slot]
  /\ UNCHANGED <<faults, setupVars, repo, daemonVars, live>>

-----------------------------------------------------------------------------
(* Daemon: task queue (src/daemon/main.py) *)

\* where the for loop of poll_loop goes after an item: the next read, or the sleep
LoopNext(rest) == IF rest = << >> THEN "sleep" ELSE "read"

\* variant of Caught where the exception leaves poll_loop
Uncaught(origin) ==
  /\ pollError' = origin
  /\ dpc' = "dead"
  /\ pending' = << >>
  /\ cur' = None

\* the exception handler of poll_loop: log, then sleep
Caught(origin) ==
  /\ pollError' = origin
  /\ dpc' = "sleep"
  /\ pending' = << >>
  /\ cur' = None

\* the ref parameter list_pending_tasks sends
ListRef == config.GITHUB_BRANCH

\* variant of IsTaskFile that keeps the keep-alive marker only
IsKeepFile(item) == item.name = GitKeep

\* the suffix filter of list_pending_tasks
IsTaskFile(item) == EndsWith(item.name, JsonSuffix)

\* variant of list_pending_tasks that leaves out what was delivered before a crash
list_undelivered_tasks ==
  SelectSeq(GhList(ListRef), LAMBDA item : IsTaskFile(item) /\ item.path \notin redo)

\* list_pending_tasks on a 200 response
list_pending_tasks == SelectSeq(GhList(ListRef), IsTaskFile)

\* poll_loop: list_pending_tasks, and git_pull (which never raises) when the
\* listing is not empty
ListPending ==
  /\ dpc = "list"
  /\ lastRef' = ListRef
  /\ \E o \in HttpOutcomes :
       /\ faults' = faults + Failed(o)
       /\ IF o = "exception"
          THEN Caught("list") /\ httpStatus' = 0
          ELSE LET status == IF o = "error" THEN 500
                             ELSE IF DOMAIN repo[ListRef] = {} THEN 404 ELSE 200
                   listing == IF status = 200 THEN list_pending_tasks ELSE << >>
               IN  /\ httpStatus' = status
                   /\ pending' = listing
                   /\ dpc' = LoopNext(listing)
                   /\ UNCHANGED <<cur, pollError>>
  /\ UNCHANGED <<setupVars, repo, workerVars, delivered, output, afterCrash, crashes, live,
                 redo, reprocessed, urlPosts>>

\* the branch read_task's request addresses: it sends no ref parameter, and
\* GitHub then serves the repository's default branch
ReadRef == DefaultBranch

\* read_task on a 200 response with well-formed content
read_task(path, got) ==
  Update(Update(JsonLoads(got.content), "_sha", got.sha), "_path", path)

\* variant of NextItem that takes the items from the end
LastItem(items) == items[Len(items)]

\* for item in pending: the item the loop takes next
NextItem(items) == Head(items)

\* for item in pending: task = await read_task(item["path"]); if task: process_task
\* (json.loads raises out of read_task and out of the loop on a malformed content)
ReadTask ==
  /\ dpc = "read"
  /\ pending # << >>
  /\ lastRef' = ReadRef
  /\ LET item == NextItem(pending)
         got == GhGet(ReadRef, item.path)
     IN  \E o \in HttpOutcomes :
           /\ faults' = faults + Failed(o)
           /\ IF o = "exception"
              THEN Caught("read") /\ httpStatus' = 0 /\ UNCHANGED <<delivered, output, reprocessed>>
              ELSE /\ httpStatus' = IF o = "error" THEN 500 ELSE got.status
                   /\ IF o = "error" \/ got.status # 200
                      THEN /\ pending' = Tail(pending)
                           /\ dpc' = LoopNext(Tail(pending))
                           /\ UNCHANGED <<cur, delivered, output, pollError, reprocessed>>
                      ELSE IF ~JsonWellFormed(got.content)
                      THEN Caught("json") /\ UNCHANGED <<delivered, output, reprocessed>>
                      ELSE /\ pending' = Tail(pending)
                           /\ cur' = read_task(item.path, got)
                           /\ delivered' = "none"
                           /\ output' = None
                           /\ dpc' = "ack"
                           /\ reprocessed' = IF item.path \in redo /\ afterCrash = "first"
                                             THEN reprocessed \cup {item.path}
                                             ELSE reprocessed
                           /\ UNCHANGED pollError
  /\ UNCHANGED <<setupVars, repo, workerVars, afterCrash, crashes, live, redo,
                 urlPosts>>

-----------------------------------------------------------------------------
(* Daemon: markdown_to_slack.  A text is a sequence of one-character tokens *)

\* the first index >= i where d starts in s, or 0
RECURSIVE FindFrom(_, _, _)
FindFrom(s, i, d) ==
  IF i + Len(d) - 1 > Len(s) THEN 0
  ELSE IF SubSeq(s, i, i + Len(d) - 1) = d THEN i
  ELSE FindFrom(s, i + 1, d)

\* three backticks; the token "backtick" is the one character U+0060
Fence == <<"backtick", "backtick", "backtick">>

\* re.split(r"(```[\s\S]*?```)", text): the parts outside fences at the odd
\* places of the result, the fenced blocks at the even ones
RECURSIVE SplitFences(_)
SplitFences(s) ==
  LET i == FindFrom(s, 1, Fence)
      j == IF i = 0 THEN 0 ELSE FindFrom(s, i + 3, Fence)
  IN  IF i = 0 \/ j = 0
      THEN <<s>>
      ELSE <<SubSeq(s, 1, i - 1), SubSeq(s, i, j + 2)>>
             \o SplitFences(SubSeq(s, j + 3, Len(s)))

\* part.split("\n")
RECURSIVE SplitLines(_)
SplitLines(s) ==
  LET i == FindFrom(s, 1, <<"\n">>)
  IN  IF i = 0 THEN <<s>>
      ELSE <<SubSeq(s, 1, i - 1)>> \o SplitLines(SubSeq(s, i + 1, Len(s)))

\* "\n".join(lines)
RECURSIVE JoinLines(_)
JoinLines(lines) ==
  IF Len(lines) = 1 THEN lines[1]
  ELSE lines[1] \o <<"\n">> \o JoinLines(Tail(lines))

\* "".join(parts)
RECURSIVE Concat(_)
Concat(parts) == IF parts = << >> THEN << >> ELSE Head(parts) \o Concat(Tail(parts))

\* the length of the run of characters of class C that starts s
RECURSIVE RunLen(_, _)
RunLen(s, C) == IF s # << >> /\ Head(s) \in C THEN 1 + RunLen(Tail(s), C) ELSE 0

\* the group (.+) after \s+ at the end of a pattern: what follows the white
\* space, or its last character when nothing follows; None when there is no match
AfterSpaces(s) ==
  LET w == RunLen(s, {" ", "\t"})
  IN  IF w = 0 THEN None
      ELSE IF w < Len(s) THEN [group |-> SubSeq(s, w + 1, Len(s))]
      ELSE IF w >= 2 THEN [group |-> <<s[w]>>]
      ELSE None

\* re.match(r"^(#{1,6})\s+(.+)$", line): group 2, or None
HeaderMatch(line) ==
  LET n == RunLen(line, {"#"})
  IN  IF n < 1 \/ n > 6 THEN None ELSE AfterSpaces(SubSeq(line, n + 1, Len(line)))

\* re.sub of d(.+?)d by l \1 r
RECURSIVE SubDelim(_, _, _, _)
SubDelim(s, d, l, r) ==
  LET i == FindFrom(s, 1, d)
      j == IF i = 0 THEN 0 ELSE FindFrom(s, i + Len(d) + 1, d)
  IN  IF i = 0 \/ j = 0
      THEN s
      ELSE SubSeq(s, 1, i - 1) \o l \o SubSeq(s, i + Len(d), j - 1) \o r
             \o SubDelim(SubSeq(s, j + Len(d), Len(s)), d, l, r)

\* \[([^\]]{min,})\]\(([^)]+)\) at the start of s: the groups and the length of
\* the match, or None
Bracketed(s, min) ==
  LET k == FindFrom(s, 2, <<"]">>)
      m == IF k = 0 THEN 0 ELSE FindFrom(s, k + 2, <<")">>)
  IN  IF /\ s # << >>
         /\ s[1] = "["
         /\ k >= 2 + min
         /\ k + 1 <= Len(s)
         /\ s[k + 1] = "("
         /\ m >= k + 3
      THEN [text |-> SubSeq(s, 2, k - 1), url |-> SubSeq(s, k + 2, m - 1), len |-> m]
      ELSE None

\* re.sub(r"\[([^\]]+)\]\(([^)]+)\)", r"<\2|\1>", line) with no mark and min 1,
\* re.sub(r"!\[([^\]]*)\]\(([^)]+)\)", r"<\2|\1>", line) with the mark "!" and min 0
RECURSIVE SubBracketed(_, _, _)
SubBracketed(s, mark, min) ==
  IF s = << >> THEN << >>
  ELSE LET match == IF SubSeq(s, 1, Len(mark)) = mark
                    THEN Bracketed(SubSeq(s, Len(mark) + 1, Len(s)), min)
                    ELSE None
       IN  IF match # None
           THEN <<"<">> \o match.url \o <<"|">> \o match.text \o <<">">>
                  \o SubBracketed(SubSeq(s, Len(mark) + match.len + 1, Len(s)), mark, min)
           ELSE <<Head(s)>> \o SubBracketed(Tail(s), mark, min)

\* re.match(r"^(\s*)\*\s+(.+)$", line), rewritten to group 1, the bullet
\* character U+2022 (one token), a space and group 2
Bullet(line) ==
  LET w == RunLen(line, {" ", "\t"})
      rest == IF w < Len(line) /\ line[w + 1] = "*"
              THEN AfterSpaces(SubSeq(line, w + 2, Len(line)))
              ELSE None
  IN  IF rest = None THEN line
      ELSE SubSeq(line, 1, w) \o <<"U+2022", " ">> \o rest.group

\* the body of the loop over the lines of a part outside fences
ConvertLine(line) ==
  IF HeaderMatch(line) # None THEN <<"*">> \o HeaderMatch(line).group \o <<"*">>
  ELSE IF Len(Strip(line)) >= 3 /\ \A i \in 1..Len(Strip(line)) : Strip(line)[i] = "-"
  THEN << >>
  ELSE LET boldItalic == SubDelim(line, <<"*", "*", "*">>, <<"*", "_">>, <<"_", "*">>)
           bold == SubDelim(boldItalic, <<"*", "*">>, <<"*">>, <<"*">>)
           links == SubBracketed(bold, << >>, 1)
           images == SubBracketed(links, <<"!">>, 0)
           strike == SubDelim(images, <<"~", "~">>, <<"~">>, <<"~">>)
       IN  Bullet(strike)

ConvertPart(part) ==
  LET lines == SplitLines(part)
  IN  JoinLines([i \in 1..Len(lines) |-> ConvertLine(lines[i])])

convert_fenced(text) == ConvertPart(text)

markdown_to_slack(text) ==
  LET parts == SplitFences(text)
  IN  Concat([i \in 1..Len(parts) |->
                IF i % 2 = 0 THEN parts[i] ELSE ConvertPart(parts[i])])

\* process_task: the cut of the converted output before it is delivered
DeliveryBudget == 3900

\* the limit of Slack for one message that process_task names
HardLimit == 4000

TruncationMarker ==
  <<"\n", ".", ".", ".", "(", "t", "r", "u", "n", "c", "a", "t", "e", "d", ")">>

NoTruncate(text) == text

Truncate(text) ==
  IF Len(text) > DeliveryBudget
  THEN SubSeq(text, 1, DeliveryBudget) \o TruncationMarker
  ELSE text

-----------------------------------------------------------------------------
(* Daemon: format_thread_context.  A message is a dict with the optional keys *)
(* "text", "bot_id" and "subtype"                                             *)

ContextHeading == <<"Previous conversation in this thread:">>

\* the body of the loop: the lines a message adds to the context
ContextLine(msg) ==
  LET text == Strip(StripMentions(Get(msg, "text", EmptyStr)))
  IN  IF text = EmptyStr THEN << >>
      ELSE IF Get(msg, "bot_id", EmptyStr) # EmptyStr THEN << <<"Bot: ">> \o text >>
      ELSE IF Get(msg, "subtype", EmptyStr) = EmptyStr THEN << <<"User: ">> \o text >>
      ELSE << >>

RECURSIVE ContextLines(_)
ContextLines(messages) ==
  IF messages = << >> THEN << >>
  ELSE ContextLine(Head(messages)) \o ContextLines(Tail(messages))

\* variant of format_thread_context that formats the latest message too
format_whole_thread(messages) ==
  LET lines == <<ContextHeading>> \o ContextLines(messages)
  IN  IF Len(lines) <= 1 THEN EmptyStr ELSE JoinLines(lines) \o <<"\n">>

format_thread_context(messages) ==
  IF Len(messages) <= 1 THEN EmptyStr
  ELSE LET lines == <<ContextHeading>>
                      \o ContextLines(SubSeq(messages, 1, Len(messages) - 1))
       IN  IF Len(lines) <= 1 THEN EmptyStr ELSE JoinLines(lines) \o <<"\n">>

-----------------------------------------------------------------------------
(* Daemon: sync_workspace_to_github.  The workspace is given by whether `git  *)
(* add` leaves something staged, by the number of commits of its branch that  *)
(* origin lacks (ahead), and by how each git command ends: "ok", "fail" (git  *)
(* reports an error) or "raise" (subprocess.run raises, a timeout say)        *)

GitOutcomes == {"ok", "fail", "raise"}

\* _run_git: the return code; an exception is turned into the code 1
_run_git(outcome) == IF outcome = "ok" THEN 0 ELSE IF outcome = "fail" THEN 128 ELSE 1

\* git diff --cached --quiet ends with 1 when something is staged
DiffCode(git) ==
  IF git.diff = "ok" THEN (IF git.staged THEN 1 ELSE 0) ELSE _run_git(git.diff)

\* git commit ends with 1 when nothing is staged
CommitCode(git) ==
  IF git.commit = "ok" THEN (IF git.staged THEN 0 ELSE 1) ELSE _run_git(git.commit)

Synced(ran, warning, committed) == [ran |-> ran, warning |-> warning, committed |-> committed]

\* variant of sync_workspace_to_github that commits without looking at the index
sync_without_diff(git) ==
  IF _run_git(git.add) # 0 THEN Synced(<<"add">>, "git add failed", FALSE)
  ELSE IF CommitCode(git) # 0
  THEN Synced(<<"add", "commit">>, "git commit failed", FALSE)
  ELSE IF _run_git(git.push1) = 0
  THEN Synced(<<"add", "commit", "push">>, "none", TRUE)
  ELSE Synced(<<"add", "commit", "push", "pull", "push">>,
              IF _run_git(git.push2) # 0 THEN "git push failed after rebase" ELSE "none",
              TRUE)

\* the git commands one sync runs, the warning it logs and whether it made a commit
sync_workspace_to_github(git) ==
  IF _run_git(git.add) # 0 THEN Synced(<<"add">>, "git add failed", FALSE)
  ELSE IF DiffCode(git) = 0 THEN Synced(<<"add", "diff">>, "none", FALSE)
  ELSE IF CommitCode(git) # 0
  THEN Synced(<<"add", "diff", "commit">>, "git commit failed", FALSE)
  ELSE IF _run_git(git.push1) = 0
  THEN Synced(<<"add", "diff", "commit", "push">>, "none", TRUE)
  ELSE Synced(<<"add", "diff", "commit", "push", "pull", "push">>,
              IF _run_git(git.push2) # 0 THEN "git push failed after rebase" ELSE "none",
              TRUE)

\* the commits of the workspace's branch that origin lacks once the sync that
\* ran synced.ran has returned: `git push origin <branch>` ending with 0 leaves
\* none, every other command leaves them where they are
Unpushed(git, synced) ==
  IF \/ Len(synced.ran) >= 4 /\ synced.ran[4] = "push" /\ _run_git(git.push1) = 0
     \/ Len(synced.ran) >= 6 /\ synced.ran[6] = "push" /\ _run_git(git.push2) = 0
  THEN 0
  ELSE git.ahead + (IF synced.committed THEN 1 ELSE 0)

-----------------------------------------------------------------------------
(* Daemon: delivery and task processing *)

\* respond_via_url with outcome o of its POST: no status is looked at
respond_via_url(o) ==
  IF o = "exception" THEN "raised" ELSE IF o = "ok" THEN "ok" ELSE "rejected"

\* post_to_slack with outcome o of its POST
post_to_slack(o) ==
  IF config.SLACK_BOT_TOKEN = EmptyStr THEN "no_token"
  ELSE IF o = "exception" THEN "raised"
  ELSE IF o = "ok" THEN "ok" ELSE "rejected"

\* the delivery of process_task: the callback URL if the task has one, else the
\* channel if it has one, else nothing
Deliver(task, o) ==
  IF Get(task, "response_url", EmptyStr) # EmptyStr THEN respond_via_url(o)
  ELSE IF Get(task, "channel_id", EmptyStr) # EmptyStr THEN post_to_slack(o)
  ELSE "no_locator"

\* the outcomes of the delivery's POST: none but "ok" when no request is sent
DeliverOutcomes(task) ==
  IF Deliver(task, "ok") = "ok" THEN HttpOutcomes ELSE {"ok"}

DeliverPosts(posts, task, o) ==
  IF Get(task, "response_url", EmptyStr) # EmptyStr /\ o # "exception"
  THEN Posted(posts, task.response_url)
  ELSE posts

\* process_task: the acknowledgment
Ack ==
  /\ dpc = "ack"
  /\ httpStatus' = 0
  /\ lastRef' = "none"
  /\ \E o \in DeliverOutcomes(cur) :
       /\ faults' = faults + Failed(o)
       /\ urlPosts' = DeliverPosts(urlPosts, cur, o)
       /\ IF Deliver(cur, o) = "raised"
          THEN Caught("ack")
          ELSE /\ dpc' = IF Get(cur, "thread_ts", EmptyStr) # EmptyStr
                            /\ Get(cur, "channel_id", EmptyStr) # EmptyStr
                         THEN "thread" ELSE "run"
               /\ UNCHANGED <<pending, cur, pollError>>
  /\ UNCHANGED <<setupVars, repo, workerVars, delivered, output, afterCrash, crashes, live,
                 redo, reprocessed>>

\* process_task: fetch_thread_history and format_thread_context
FetchThread ==
  /\ dpc = "thread"
  /\ \E o \in (IF config.SLACK_BOT_TOKEN # EmptyStr THEN HttpOutcomes ELSE {"ok"}) :
       /\ faults' = faults + Failed(o)
       /\ IF o = "exception"
          THEN Caught("thread")
          ELSE dpc' = "run" /\ UNCHANGED <<pending, cur, pollError>>
  /\ UNCHANGED <<setupVars, repo, workerVars, delivered, output, httpStatus, lastRef,
                 afterCrash, crashes, live, redo, reprocessed, urlPosts>>

\* what the agent process does: it ends with status 0, ends with another
\* status, runs into the timeout, or cannot be started (no such binary, or
\* another OSError, which counts as a failed call)
AgentOutcomes ==
  {"success", "exit", "timeout", "not_found"}
    \cup (IF faults < MaxFaults THEN {"os_error"} ELSE {})

AgentStdout == <<" ", "d", "o", "n", "e", "\n">>
AgentStderr == <<"b", "o", "o", "m">>

\* variant of run_claude that does not catch the timeout
run_claude_no_timeout(agent) ==
  IF agent = "success" THEN [text |-> Strip(AgentStdout)]
  ELSE IF agent = "exit"
  THEN [text |-> <<"Error: Claude Code returned exit code ", "1", "\n">>
                   \o Take(AgentStderr, 500)]
  ELSE IF agent = "not_found"
  THEN [text |-> <<"Error: Claude Code CLI not found. Is it installed and in PATH?">>]
  ELSE None

\* run_claude: the text it returns, or None when subprocess.run raises what it
\* does not catch
run_claude(agent) ==
  IF agent = "success" THEN [text |-> Strip(AgentStdout)]
  ELSE IF agent = "exit"
  THEN [text |-> <<"Error: Claude Code returned exit code ", "1", "\n">>
                   \o Take(AgentStderr, 500)]
  ELSE IF agent = "timeout"
  THEN [text |-> <<"Error: Claude Code timed out (", "CLAUDE_TIMEOUT", "s limit)">>]
  ELSE IF agent = "not_found"
  THEN [text |-> <<"Error: Claude Code CLI not found. Is it installed and in PATH?">>]
  ELSE None

\* process_task: run_claude in the executor, markdown_to_slack, truncation;
\* with record, a run of the agent that ended is entered in executed
RunClaude(record) ==
  /\ dpc = "run"
  /\ \E agent \in AgentOutcomes :
       /\ faults' = faults + (IF agent = "os_error" THEN 1 ELSE 0)
       /\ output' = [agent |-> agent, result |-> run_claude(agent)]
       /\ executed' = IF record /\ agent \in {"success", "exit", "timeout"}
                      THEN executed \cup {cur.task_id} ELSE executed
       /\ IF run_claude(agent) = None
          THEN Caught("run")
          ELSE dpc' = "deliver" /\ UNCHANGED <<pending, cur, pollError>>
  /\ UNCHANGED <<config, limit, call, ret, repo, workerVars, delivered, httpStatus,
                 lastRef, afterCrash, crashes, live, redo, reprocessed, urlPosts>>

\* variant of AfterDeliver that goes on to delete_task whatever the delivery did
AlwaysDelete(end) == "delete"

\* where process_task goes when the result delivery ended with `end`: to
\* delete_task, unless the delivery raised
AfterDeliver(end) == IF end = "raised" THEN "except" ELSE "delete"

\* process_task: the result
DeliverResult ==
  /\ dpc = "deliver"
  /\ \E o \in DeliverOutcomes(cur) :
       /\ faults' = faults + Failed(o)
       /\ urlPosts' = DeliverPosts(urlPosts, cur, o)
       /\ delivered' = Deliver(cur, o)
       /\ output' = None
       /\ IF AfterDeliver(Deliver(cur, o)) = "except"
          THEN Caught("deliver")
          ELSE dpc' = "delete" /\ UNCHANGED <<pending, cur, pollError>>
  /\ UNCHANGED <<setupVars, repo, workerVars, httpStatus, lastRef, afterCrash,
                 crashes, live, redo, reprocessed>>

\* the payload of delete_task's DELETE request
DeletePayload(path, sha) ==
  [message |-> <<"Task completed: ">> \o path, sha |-> sha,
   branch |-> config.GITHUB_BRANCH]

\* variant of Deleted that keeps the file
Kept(files, name) == files

\* GitHub removes the file on a DELETE it accepts
Deleted(files, name) == Remove(files, name)

\* process_task: delete_task, which logs a refusal and returns
DeleteTask ==
  /\ dpc = "delete"
  /\ LET payload == DeletePayload(cur._path, cur._sha)
         name == NameOf(cur._path)
     IN  \E o \in HttpOutcomes :
           /\ faults' = faults + Failed(o)
           /\ IF o = "exception"
              THEN Caught("delete") /\ httpStatus' = 0 /\ UNCHANGED <<repo, live>>
              ELSE LET status == IF o = "error" THEN 500
                                 ELSE GhDeleteStatus(payload.branch, cur._path, payload)
                   IN  /\ httpStatus' = status
                       /\ repo' = IF status \in {200, 204}
                                  THEN [repo EXCEPT ![payload.branch] =
                                          Deleted(repo[payload.branch], name)]
                                  ELSE repo
                       /\ live' = IF status \in {200, 204} THEN live \ {name} ELSE live
                       /\ dpc' = "sync"
                       /\ UNCHANGED <<pending, cur, pollError>>
  /\ UNCHANGED <<setupVars, workerVars, delivered, output, lastRef, afterCrash, crashes,
                 redo, reprocessed, urlPosts>>

\* process_task: sync_workspace_to_github (it never raises), then the next item
SyncWorkspace ==
  /\ dpc = "sync"
  /\ dpc' = LoopNext(pending)
  /\ cur' = None
  /\ delivered' = "none"
  /\ output' = None
  /\ httpStatus' = 0
  /\ UNCHANGED <<faults, setupVars, repo, workerVars, pending, lastRef, pollError,
                 afterCrash, crashes, live, redo, reprocessed, urlPosts>>

\* poll_loop: asyncio.sleep(POLL_INTERVAL), then the next iteration
Sleep ==
  /\ dpc = "sleep"
  /\ dpc' = "list"
  /\ pollError' = "none"
  /\ httpStatus' = 0
  /\ lastRef' = "none"
  /\ afterCrash' = IF afterCrash = "first" THEN "later" ELSE afterCrash
  /\ redo' = {}
  /\ reprocessed' = {}
  /\ output' = None
  /\ delivered' = "none"
  /\ UNCHANGED <<faults, setupVars, repo, workerVars, pending, cur,
                 crashes, live, urlPosts>>

\* the daemon process dies and its supervisor starts it again: poll_loop starts
\* over with nothing but the store
Crash ==
  /\ dpc # "off"
  /\ crashes < MaxCrashes
  /\ crashes' = crashes + 1
  /\ redo' = IF dpc = "delete" /\ delivered = "ok" THEN {cur._path} ELSE {}
  /\ reprocessed' = {}
  /\ dpc' = "list"
  /\ pending' = << >>
  /\ cur' = None
  /\ delivered' = "none"
  /\ output' = None
  /\ afterCrash' = "first"
  /\ pollError' = "none"
  /\ httpStatus' = 0
  /\ lastRef' = "none"
  /\ UNCHANGED <<faults, setupVars, repo, workerVars, live, urlPosts>>

-----------------------------------------------------------------------------
(* Specifications *)

BotToken == <<"xoxb">>

Config(branch, secret, worker_token, daemon_token) ==
  [GITHUB_BRANCH |-> branch, SLACK_SIGNING_SECRET |-> secret,
   WORKER_BOT_TOKEN |-> worker_token, SLACK_BOT_TOKEN |-> daemon_token]

QueueConfigs ==
  { Config("main", SlackSecret, BotToken, BotToken),
    Config("main", SlackSecret, BotToken, EmptyStr),
    Config("dev", SlackSecret, BotToken, BotToken) }

\* tasks/ as the repository holds it at the start: absent, or with the keep-alive
\* marker and a foreign JSON file
InitialDirs == { << >>, (GitKeep :> EmptyStr) @@ (ForeignName :> Malformed) }

InitIdle ==
  /\ nreq = 0
  /\ lastReq = None
  /\ disp = [c \in Commands |-> NoSlot]
  /\ pending = << >>
  /\ cur = None
  /\ delivered = "none"
  /\ output = None
  /\ httpStatus = 0
  /\ lastRef = "none"
  /\ pollError = "none"
  /\ afterCrash = "none"
  /\ crashes = 0
  /\ live = {}
  /\ redo = {}
  /\ reprocessed = {}
  /\ urlPosts = [c \in Commands |-> 0]
  /\ executed = {}

InitCommon ==
  /\ InitIdle
  /\ call = None
  /\ ret = None

Init ==
  /\ faults = 0
  /\ config \in QueueConfigs
  /\ limit = MaxRequests
  /\ \E dir \in InitialDirs : repo = [b \in Branches |-> dir]
  /\ dpc = "list"
  /\ InitCommon

Next ==
  \/ \E r \in QueueRequests(nreq + 1) : SlackEvents(r)
  \/ \E c \in Commands : Dispatch(c)
  \/ \E c \in Commands : WriteFile(c)
  \/ ListPending
  \/ ReadTask
  \/ Ack
  \/ FetchThread
  \/ RunClaude(FALSE)
  \/ DeliverResult
  \/ DeleteTask
  \/ SyncWorkspace
  \/ Sleep
  \/ Crash

Spec == Init /\ [][Next]_vars

\* the same program when GitHub, Slack and the agent answer every call
InitNominal ==
  /\ faults = MaxFaults
  /\ config \in QueueConfigs
  /\ limit = MaxRequests
  /\ \E dir \in InitialDirs : repo = [b \in Branches |-> dir]
  /\ dpc = "list"
  /\ InitCommon

SpecNominal == InitNominal /\ [][Next]_vars

\* the same system with the runs of the agent recorded
NextHistory ==
  \/ \E r \in QueueRequests(nreq + 1) : SlackEvents(r)
  \/ \E c \in Commands : Dispatch(c)
  \/ \E c \in Commands : WriteFile(c)
  \/ ListPending
  \/ ReadTask
  \/ Ack
  \/ FetchThread
  \/ RunClaude(TRUE)
  \/ DeliverResult
  \/ DeleteTask
  \/ SyncWorkspace
  \/ Sleep
  \/ Crash

SpecHistory == Init /\ [][NextHistory]_vars

-----------------------------------------------------------------------------
(* The worker alone, under every shape of request *)

HelpUpper == <<"H", "E", "L", "P">>

CommandTexts ==
  {Help, HelpUpper, <<" ", "H", "e", "l", "p", "\n">>, EmptyStr, <<" ", "\t">>, Status,
   <<"P", "i", "n", "g">>, Prompt, Help \o <<"s">>, Help \o <<" ">> \o Prompt}

MentionTexts == {<<Mention, " ">> \o Prompt, <<Mention, " ">> \o HelpUpper, <<Mention>>}

OtherSecret == <<"guess">>

\* timestamps around the edge of the replay window, and one that is no number
Timestamps ==
  {[num |-> NowTime + d] :
     d \in {0 - (ReplayWindow + 1), 0 - ReplayWindow, 0, ReplayWindow, ReplayWindow + 1}}
    \cup {[text |-> "soon"]}

InboundRequests(c) ==
  { Signed(FormType, SlashBody(text, c), Fresh, SlackSecret) : text \in CommandTexts }
    \cup
  { Signed(JsonType, EventBody(UserEvent(text, c)), Fresh, SlackSecret) :
      text \in MentionTexts }
    \cup
  { Signed(JsonType, EventBody(Update(UserEvent(Prompt, c), "bot_id", <<"B1">>)), Fresh,
           SlackSecret),
    Signed(JsonType, EventBody(Update(UserEvent(Prompt, c), "subtype", "bot_message")),
           Fresh, SlackSecret),
    Signed(JsonType,
           EventBody(Update(UserEvent(<<Mention, " ">> \o Prompt, c), "bot_id", <<"B1">>)),
           Fresh, SlackSecret),
    Signed(JsonType, [type |-> "url_verification", challenge |-> <<"x">>], Fresh,
           SlackSecret),
    Signed(JsonType, [type |-> "app_rate_limited"], Fresh, SlackSecret) }
    \cup
  { Signed(FormType, SlashBody(Prompt, c), timestamp, key) :
      timestamp \in Timestamps, key \in {SlackSecret, OtherSecret, EmptyStr} }

InboundConfigs ==
  { Config("main", SlackSecret, BotToken, BotToken),
    Config("main", EmptyStr, BotToken, BotToken),
    Config("main", SlackSecret, EmptyStr, BotToken) }

InitInbound ==
  /\ faults = 0
  /\ config \in InboundConfigs
  /\ limit = MaxInbound
  /\ repo = [b \in Branches |-> << >>]
  /\ dpc = "off"
  /\ InitCommon

NextInbound ==
  \/ \E r \in InboundRequests(nreq + 1) : SlackEvents(r)
  \/ \E c \in Commands : Dispatch(c)
  \/ \E c \in Commands : WriteFile(c)

SpecInbound == InitInbound /\ [][NextInbound]_vars

-----------------------------------------------------------------------------
(* The daemon as the event loop runs it: poll_loop is its only coroutine, so it
   takes its next step whenever one is possible *)

DaemonNext ==
  \/ ListPending
  \/ ReadTask
  \/ Ack
  \/ FetchThread
  \/ RunClaude(FALSE)
  \/ DeliverResult
  \/ DeleteTask
  \/ SyncWorkspace
  \/ Sleep

NextLive ==
  \/ \E r \in QueueRequests(nreq + 1) : SlackEvents(r)
  \/ \E c \in Commands : Dispatch(c)
  \/ \E c \in Commands : WriteFile(c)
  \/ DaemonNext

SpecLive == Init /\ [][NextLive]_vars /\ WF_vars(DaemonNext)

\* the same when GitHub, Slack and the agent answer every call
SpecLiveNominal == InitNominal /\ [][NextLive]_vars /\ WF_vars(DaemonNext)

-----------------------------------------------------------------------------
(* The worker alone while tasks wait in the store *)

InitMailbox ==
  /\ faults = 0
  /\ config \in QueueConfigs
  /\ limit = MaxMailbox
  /\ repo = [b \in Branches |-> << >>]
  /\ dpc = "off"
  /\ InitCommon

NextMailbox ==
  \/ \E r \in QueueRequests(nreq + 1) : SlackEvents(r)
  \/ \E c \in Commands : Dispatch(c)
  \/ \E c \in Commands : WriteFile(c)

SpecMailbox == InitMailbox /\ [][NextMailbox]_vars

-----------------------------------------------------------------------------
(* The daemon alone with the files of two commands waiting in the store *)

InitBatch ==
  /\ faults = 0
  /\ config \in {Config("main", SlackSecret, BotToken, BotToken),
                 Config("main", SlackSecret, BotToken, EmptyStr)}
  /\ limit = 0
  /\ \E r1 \in QueueRequests(1), r2 \in QueueRequests(2) :
       repo = [b \in Branches |->
                 (TaskName(<<"a">>)
                    :> JsonDumps(NewTask(Routed(r1).slot, <<"a">>, 1), TaskKeys))
                   @@ (TaskName(<<"c">>)
                         :> JsonDumps(NewTask(Routed(r2).slot, <<"c">>, 2), TaskKeys))]
  /\ dpc = "list"
  /\ InitCommon

NextBatch ==
  \/ DaemonNext
  \/ Crash

SpecBatch == InitBatch /\ [][NextBatch]_vars

-----------------------------------------------------------------------------
(* The functions of the daemon that depend on their arguments alone, each     *)
(* called on its own with arguments drawn from a bounded set                  *)

MaxSegments == 3
MaxAround == 30
MaxThread == 3
MaxLine == 6

\* the sequences of at most n elements of S
RECURSIVE SeqsUpTo(_, _)
SeqsUpTo(S, n) ==
  IF n = 0 THEN {<< >>}
  ELSE SeqsUpTo(S, n - 1) \cup {t \o <<e>> : t \in SeqsUpTo(S, n - 1), e \in S}

Bold == <<"*", "*", "x", "*", "*">>
Heading == <<"#", " ", "h">>
Image == <<"!", "[", "a", "]", "(", "u", ")">>
ImageNoAlt == <<"!", "[", "]", "(", "u", ")">>

Fenced(body) == Fence \o body \o Fence

\* markup (bold, link, strike, heading, images, rule), fenced blocks around
\* markup, and plain characters with a fence that nothing closes
Segments ==
  {Bold, <<"[", "a", "]", "(", "u", ")">>, <<"~", "~", "s", "~", "~">>, Heading, Image,
   ImageNoAlt, <<"-", "-", "-">>}
    \cup {Fenced(body) :
            body \in {Bold, <<"[", "a", "]", "(", "u", ")">>, <<"~", "~", "s", "~", "~">>,
                      Heading, Image}}
    \cup {<<"\n">>, <<"x">>, Fence, <<"backtick">>}

\* texts of at most MaxSegments segments, and lines of at most MaxLine
\* asterisks, spaces and letters
MarkdownCalls ==
  {[fn |-> "markdown_to_slack", arg |-> Concat(t)] : t \in SeqsUpTo(Segments, MaxSegments)}
    \cup {[fn |-> "markdown_to_slack", arg |-> line] :
            line \in SeqsUpTo({"*", " ", "x"}, MaxLine)}

\* outputs of n characters whose neighbours differ, n short, around the budget,
\* around the hard limit and far beyond it
TruncateCalls ==
  {[fn |-> "truncate",
    arg |-> [i \in 1..n |-> <<"0", "1", "2", "3", "4", "5", "6", "7", "8", "9">>[(i % 10) + 1]]] :
     n \in {0, 1, HardLimit, HardLimit + 1, 2 * DeliveryBudget}
             \cup ((DeliveryBudget - MaxAround)..(DeliveryBudget + MaxAround))}

Greeting == <<"h", "i">>
TwoLines == <<"a", "\n", "b">>

MessageTexts == {Greeting, <<Mention, " ">>, <<Mention, " ">> \o Greeting, TwoLines}

HumanMessage(text) == [text |-> text, user |-> <<"U1">>]
BotMessage(text) == [text |-> text, bot_id |-> <<"B1">>]

\* messages of a human, of the bot, of a member who joins, and one without the
\* key "text"
ThreadMessages ==
  {HumanMessage(t) : t \in MessageTexts}
    \cup {BotMessage(t) : t \in MessageTexts}
    \cup {[text |-> t, user |-> <<"U1">>, subtype |-> <<"channel_join">>] : t \in MessageTexts}
    \cup {[user |-> <<"U1">>, files |-> <<"f">>]}

ThreadCalls ==
  {[fn |-> "format_thread_context", arg |-> t] : t \in SeqsUpTo(ThreadMessages, MaxThread)}

MaxAhead == 1

SyncCalls ==
  {[fn |-> "sync_workspace_to_github", arg |-> git] :
     git \in [staged : BOOLEAN, ahead : 0..MaxAhead, add : GitOutcomes, diff : GitOutcomes,
              commit : GitOutcomes, push1 : GitOutcomes, pull : GitOutcomes,
              push2 : GitOutcomes]}

\* both processes at rest, and one call about to be made
InitCalls ==
  /\ faults = MaxFaults
  /\ config = Config("main", SlackSecret, BotToken, BotToken)
  /\ limit = 0
  /\ repo = [b \in Branches |-> << >>]
  /\ dpc = "off"
  /\ InitIdle
  /\ \/ call \in MarkdownCalls
     \/ call \in TruncateCalls
     \/ call \in ThreadCalls
     \/ call \in SyncCalls
  /\ ret = None

Return(fn, value) ==
  /\ call # None
  /\ call.fn = fn
  /\ ret = None
  /\ ret' = [value |-> value]
  /\ UNCHANGED <<faults, config, limit, call, executed, repo, workerVars, daemonVars, live>>

NextCalls ==
  \/ Return("markdown_to_slack", markdown_to_slack(call.arg))
  \/ Return("truncate", Truncate(call.arg))
  \/ Return("format_thread_context", format_thread_context(call.arg))
  \/ Return("sync_workspace_to_github", sync_workspace_to_github(call.arg))

SpecCalls == InitCalls /\ [][NextCalls]_vars

-----------------------------------------------------------------------------
(* Claims about the task queue *)

\* C1: after an enqueue whose write succeeded, a list_pending_tasks that GitHub
\* answers, with no delete of the task in between, returns a listing that holds
\* the path tasks/<task_id>.json of the task exactly once.
C1_EnqueuedListedOnce ==
  [][ (dpc = "list" /\ dpc' \in {"read", "sleep"} /\ httpStatus' \in {200, 404}) =>
        \A name \in live :
          Cardinality({i \in DOMAIN pending' : pending'[i].path = PathOf(name)}) = 1 ]_vars

C1_Witness ==
  /\ dpc = "read"
  /\ httpStatus = 200
  /\ \E i \in DOMAIN pending : NameOf(pending[i].path) \in live

\* C2: delete_task with the path and the sha that read_task returned for a task
\* file, while that sha is still the file's, removes the file; and no later
\* listing holds a path that the branch does not hold.
C2_CompletedIsGone ==
  [][ /\ (/\ dpc = "delete"
          /\ dpc' = "sync"
          /\ httpStatus' # 500
          /\ NameOf(cur._path) \in DOMAIN repo[config.GITHUB_BRANCH]
          /\ cur._sha = [blob |-> repo[config.GITHUB_BRANCH][NameOf(cur._path)]])
         => NameOf(cur._path) \notin DOMAIN repo'[config.GITHUB_BRANCH]
      /\ (dpc = "list" /\ dpc' \in {"read", "sleep"}) =>
           \A i \in DOMAIN pending' :
             NameOf(pending'[i].path) \in DOMAIN repo[config.GITHUB_BRANCH] ]_vars

C2_Witness ==
  /\ dpc = "sync"
  /\ httpStatus = 200
  /\ NameOf(cur._path) \notin DOMAIN repo[config.GITHUB_BRANCH]

\* C4: when the daemon crashes after it delivered a task's result and before it
\* deleted the task file, the file is still in the store when the daemon starts
\* again, and the first poll iteration after the restart processes the task again.
C4_ReprocessedAfterCrash ==
  /\ (afterCrash = "first" /\ dpc = "list") =>
       \A path \in redo : NameOf(path) \in DOMAIN repo[config.GITHUB_BRANCH]
  /\ (afterCrash = "first" /\ dpc = "sleep") => redo \subseteq reprocessed

C4_Witness == afterCrash = "first" /\ redo # {} /\ reprocessed = redo

\* C5 (as stated): delete_task is called for a task only after its result was
\* successfully handed to the delivery channel.
C5_DeleteOnlyAfterHandOver == dpc = "delete" => delivered = "ok"

\* C5 (amended): delete_task is called for a task once the delivery call of its
\* result has returned without raising, whether the result was handed over, was
\* rejected, or was not sent for want of a bot token or of a locator.
C5_DeleteAfterDeliveryReturned ==
  dpc = "delete" => delivered \in {"ok", "rejected", "no_token", "no_locator"}

C5_Witness == dpc = "sync" /\ httpStatus = 200 /\ delivered \in {"rejected", "no_token"}

\* C6 (as stated): when the content of a pending task file is malformed, the
\* daemon skips that file without deleting it and the loop goes on with the other
\* items of the same listing.
C6_MalformedSkippedRestProcessed ==
  [][ (/\ ReadTask
       /\ httpStatus' = 200
       /\ ~JsonWellFormed(repo[ReadRef][NameOf(Head(pending).path)]))
      => (/\ repo' = repo
          /\ pending' = Tail(pending)
          /\ dpc' = (IF Tail(pending) = << >> THEN "sleep" ELSE "read")) ]_vars

\* C7 (as stated): the response_url of one command is posted to at most once,
\* the posts of the dispatcher and of the daemon counted together.
C7_UrlPostedAtMostOnce ==
  \A c \in Commands :
    urlPosts[c] + (IF "sent" \in DOMAIN disp[c] /\ disp[c].sent = "url" THEN 1 ELSE 0) <= 1

\* C7 (amended): the daemon posts to a command's response_url only when the
\* dispatcher enqueued the command and so posted nothing to it; the daemon then
\* posts to it twice each time it processes the task: the acknowledgment before
\* the agent runs, and the result before delete_task.
C7_UrlPostsOfOneCommand ==
  \A c \in Commands :
    /\ urlPosts[c] > 0 =>
         (disp[c].pc = "done" /\ disp[c].sent = "nothing" /\ disp[c].reply = "none")
    /\ (dpc \in {"thread", "run", "deliver"} /\ Get(cur, "response_url", << >>) = UrlOf(c))
         => urlPosts[c] >= 1
    /\ (dpc = "delete" /\ Get(cur, "response_url", << >>) = UrlOf(c)) => urlPosts[c] >= 2

C7_Witness == \E c \in Commands : dpc = "delete" /\ delivered = "ok" /\ urlPosts[c] >= 2

\* C8 (as stated): no delivery failure is raised to the caller: neither the
\* daemon's acknowledgment or result delivery nor the dispatcher's reply ends in
\* an exception that reaches poll_loop or the dispatch coroutine.
C8_DeliveryNeverRaises ==
  /\ pollError \notin {"ack", "deliver"}
  /\ \A c \in Commands : ~(disp[c].pc = "raised" /\ disp[c].reply # "none")

\* C10 (as stated): read_task fetches the file on the configured branch: a file
\* that the configured branch holds is served to it with status 200.
C10_ReadsConfiguredBranch ==
  [][ (ReadTask /\ NameOf(Head(pending).path) \in DOMAIN repo[config.GITHUB_BRANCH])
      => httpStatus' = 200 ]_vars

\* C13: when the agent ends with status 0, ends with another status, runs into
\* the timeout or is not found, run_claude returns a text and raises nothing,
\* and process_task goes on to the result delivery as for a successful run.
C13_AgentOutcomeIsText ==
  [][ (/\ dpc = "run"
       /\ dpc' # "run"
       /\ crashes' = crashes
       /\ output'.agent \in {"success", "exit", "timeout", "not_found"})
      => (/\ output'.result # None
          /\ dpc' = "deliver"
          /\ pollError' = pollError
          /\ cur' = cur) ]_vars

C13_Witness ==
  /\ dpc = "deliver"
  /\ cur # None
  /\ pollError = "none"
  /\ output # None
  /\ output.agent = "timeout"
  /\ output.result # None

\* C14: no error raised in a poll iteration ends poll_loop: whatever was raised
\* by the listing, a read, a delivery, the thread fetch, the agent or the delete,
\* the loop reaches its sleep and starts the next iteration, again and again.
C14_LoopNeverEnds ==
  /\ []<>(dpc = "sleep")
  /\ []<>(dpc = "list")
  /\ [](pollError # "none" => <>(dpc = "list" /\ pollError = "none"))

C14_Witness == dpc = "sleep" /\ pollError \in {"list", "read", "json", "ack", "thread", "run", "deliver", "delete"}

\* C19: the tasks of a listing are processed one after the other in listing
\* order: the task read is the first item left of the listing, it is read only
\* when no task is in process, a task is in process exactly from its
\* acknowledgment to its sync, and it leaves the process only by the end of its
\* sync, by an exception that ends the iteration, or by a crash of the process
C19_OneTaskAtATime ==
  [][ /\ (cur # None) = (dpc \in {"ack", "thread", "run", "deliver", "delete", "sync"})
      /\ (cur' # cur /\ cur' # None)
           => /\ dpc = "read"
              /\ cur = None
              /\ pending # << >>
              /\ cur'._path = Head(pending).path
              /\ pending' = Tail(pending)
              /\ dpc' = "ack"
      /\ (cur # None /\ cur' # cur)
           => \/ dpc = "sync"
              \/ dpc' = "sleep" /\ pollError' # "none" /\ pending' = << >>
              \/ crashes' = crashes + 1
      /\ (dpc # "list" /\ pending' # pending)
           => \/ pending' = << >>
              \/ dpc = "read" /\ pending' = Tail(pending) ]_vars

C19_Witness ==
  /\ dpc = "run"
  /\ faults = 0
  /\ crashes = 0
  /\ cur # None
  /\ cur.task_id = <<"c">>
  /\ pending = << >>
  /\ DOMAIN repo[config.GITHUB_BRANCH] = {TaskName(<<"c">>)}

\* C22: while the daemon keeps polling and every call to GitHub, Slack and the
\* agent succeeds, a task that was enqueued with success is in the end
\* delivered to its locator and its file deleted (stated for a daemon that has
\* its Slack token)
C22_EnqueuedIsDeliveredAndDeleted ==
  \A t \in TaskIds :
    (TaskName(<<t>>) \in live /\ config.SLACK_BOT_TOKEN # EmptyStr)
      ~> (/\ dpc = "sync"
          /\ cur # None
          /\ cur.task_id = <<t>>
          /\ delivered = "ok"
          /\ TaskName(<<t>>) \notin DOMAIN repo[config.GITHUB_BRANCH])

\* C23: while the daemon process has not crashed, the agent is not run for a
\* task it has been run for before, whatever calls to GitHub or Slack fail
C23_ExecutedOnceWithoutCrash ==
  [][ (/\ dpc = "run"
       /\ dpc' # "run"
       /\ crashes' = 0
       /\ output'.agent \in {"success", "exit", "timeout"})
      => cur.task_id \notin executed ]_vars

-----------------------------------------------------------------------------
(* Claims about the worker *)

\* C11 (as stated): an enqueue only creates a task file: no step changes the
\* content of a file the store holds, whatever task_id the producer draws, and
\* a file leaves the store only by the daemon's delete_task.
C11_AppendOnlyMailbox ==
  [][ \A b \in Branches : \A name \in DOMAIN repo[b] :
        IF name \in DOMAIN repo'[b]
        THEN repo'[b][name] = repo[b][name]
        ELSE dpc = "delete" /\ dpc' = "sync" ]_vars

\* C3 (as stated): dispatch with the text "help" in any letter case never calls
\* _dispatch_to_daemon and writes no file; dispatch with any other non-empty text
\* calls it exactly once.
C3_HelpNeverOthersOnce ==
  \A c \in Commands :
    disp[c].pc \in {"put", "done", "raised"} =>
      IF disp[c].text \in {<<"h", "e", "l", "p">>, <<"H", "E", "L", "P">>,
                           <<"H", "e", "l", "p">>}
      THEN disp[c].produced = 0 /\ disp[c].writes = 0
      ELSE disp[c].text # << >> => disp[c].produced = 1

\* C3 (amended): dispatch with a text that is empty, "help", "status" or "ping"
\* in any letter case never calls _dispatch_to_daemon and writes no file;
\* dispatch with any other text calls it exactly once, and it sends at most one
\* PUT.
C3_BuiltinsNeverOthersOnce ==
  \A c \in Commands :
    disp[c].pc \in {"put", "done", "raised"} =>
      IF disp[c].text \in {<< >>, <<"h", "e", "l", "p">>, <<"H", "E", "L", "P">>,
                           <<"H", "e", "l", "p">>, <<"s", "t", "a", "t", "u", "s">>,
                           <<"P", "i", "n", "g">>}
      THEN disp[c].produced = 0 /\ disp[c].writes = 0
      ELSE disp[c].produced = 1 /\ disp[c].writes <= 1

C3_Witness ==
  \E c \in Commands :
    /\ disp[c].pc = "done"
    /\ disp[c].text = <<"h", "e", "l", "p", " ", "l", "s">>
    /\ disp[c].produced = 1
    /\ disp[c].writes = 1

\* C12 (as stated): when write_file fails for a dispatched command the
\* dispatcher delivers the error message to the originator (callback URL or
\* channel); when the write succeeds it delivers nothing.
C12_ErrorOnFailedWrite ==
  [][ \A c \in Commands :
        (/\ disp[c].pc \in {"start", "put"}
         /\ disp'[c].pc \in {"done", "raised"}
         /\ disp'[c].produced = 1)
        => IF repo' # repo
           THEN disp'[c].reply = "none" /\ disp'[c].sent = "nothing"
           ELSE disp'[c].reply = "error" /\ disp'[c].sent \in {"url", "channel"} ]_vars

\* C24: a message event that carries a bot id or the subtype bot_message starts
\* no dispatch, and taking it writes no task file
C24_BotEventsNotDispatched ==
  [][ (/\ nreq' = nreq + 1
       /\ lastReq'.bot_id # EmptyStr \/ lastReq'.subtype = "bot_message")
      => /\ disp'[nreq'] = NoSlot
         /\ repo' = repo
         /\ live' = live ]_vars

\* a signed event of a message posted by a bot was answered 200 and started
\* nothing
C24_BotEventIgnored ==
  /\ lastReq # None
  /\ lastReq.signed
  /\ lastReq.status = 200
  /\ lastReq.bot_id = <<"B1">>
  /\ disp[nreq] = NoSlot

-----------------------------------------------------------------------------
(* Claims about the functions of the daemon *)

\* C15: markdown_to_slack leaves every fenced code region as it is: the fenced
\* blocks of the result are the fenced blocks of the input, one for one and in
\* order, whatever markup they hold
C15_FencedRegionsUnchanged ==
  (call # None /\ call.fn = "markdown_to_slack" /\ ret # None)
    => /\ Len(SplitFences(ret.value)) = Len(SplitFences(call.arg))
       /\ \A i \in 1..Len(SplitFences(call.arg)) :
            i % 2 = 0 => SplitFences(ret.value)[i] = SplitFences(call.arg)[i]

C15_Witness ==
  /\ call # None
  /\ call.fn = "markdown_to_slack"
  /\ call.arg = Bold \o Fenced(Bold) \o Heading
  /\ ret # None
  /\ ret.value = <<"*", "x", "*">> \o Fenced(Bold) \o <<"*", "h", "*">>

\* C16: outside fenced code regions an image ![alt](url) becomes exactly
\* <url|alt>, and nothing of the image syntax is left in the result
C16_ImageBecomesLink ==
  (call # None /\ call.fn = "markdown_to_slack" /\ ret # None)
    => \A before \in {EmptyStr, <<"x">>, <<"\n">>}, after \in {EmptyStr, <<"x">>, <<"\n">>} :
         /\ call.arg = before \o Image \o after
              => ret.value = before \o <<"<", "u", "|", "a", ">">> \o after
         /\ call.arg = before \o ImageNoAlt \o after
              => ret.value = before \o <<"<", "u", "|", ">">> \o after

C18_TwoLineBlock ==
  (call # None /\ call.fn = "format_thread_context" /\ ret # None)
    => \A t1 \in {Greeting, <<Mention, " ">> \o Greeting}, t2 \in {Greeting} :
         \A last \in ThreadMessages :
           call.arg = <<BotMessage(t1), HumanMessage(t2), last>>
             => Cardinality({i \in 1..Len(ret.value) : ret.value[i] = "\n"}) = 2

\* C18, amended: the context is empty for a thread of at most one message; it
\* does not depend on the last message; a prior message with no text left after
\* the mentions are stripped adds nothing; and a prior bot message and a prior
\* human message (no subtype), each with one line of text left, give the
\* heading line followed by one line per message, "Bot: " or "User: " and the
\* text, in thread order
C18_ContextOfPriorMessages ==
  (call # None /\ call.fn = "format_thread_context" /\ ret # None)
    => /\ Len(call.arg) <= 1 => ret.value = EmptyStr
       /\ Len(call.arg) >= 1
            => \A last \in ThreadMessages :
                 format_thread_context(SubSeq(call.arg, 1, Len(call.arg) - 1) \o <<last>>)
                   = ret.value
       /\ \A i \in 1..(Len(call.arg) - 1) :
            Strip(StripMentions(Get(call.arg[i], "text", EmptyStr))) = EmptyStr
              => format_thread_context(SubSeq(call.arg, 1, i - 1)
                                         \o SubSeq(call.arg, i + 1, Len(call.arg)))
                   = ret.value
       /\ \A t1 \in {Greeting, <<Mention, " ">> \o Greeting}, t2 \in {Greeting} :
            \A last \in ThreadMessages :
              /\ call.arg = <<BotMessage(t1), HumanMessage(t2), last>>
                   => ret.value = ContextHeading \o <<"\n", "Bot: ">> \o Greeting
                                    \o <<"\n", "User: ">> \o Greeting \o <<"\n">>
              /\ call.arg = <<HumanMessage(t2), BotMessage(t1), last>>
                   => ret.value = ContextHeading \o <<"\n", "User: ">> \o Greeting
                                    \o <<"\n", "Bot: ">> \o Greeting \o <<"\n">>

C18_Witness ==
  /\ call # None
  /\ call.fn = "format_thread_context"
  /\ call.arg = <<BotMessage(<<Mention, " ">> \o Greeting), HumanMessage(Greeting),
                  HumanMessage(TwoLines)>>
  /\ ret # None
  /\ ret.value = ContextHeading \o <<"\n", "Bot: ">> \o Greeting
                   \o <<"\n", "User: ">> \o Greeting \o <<"\n">>

\* C20: one sync makes a commit only when something is staged (it runs git
\* commit only when git diff --cached did not end with 0), pushes at most
\* twice, pulls at most once and only right after a first push that failed, and
\* returns in every case; a failing add or commit ends it at once with a
\* warning, and so does a push that fails again after the pull
C20_SyncCommitsAndRetriesOnce ==
  (call # None /\ call.fn = "sync_workspace_to_github" /\ ret # None)
    => /\ ret.value.committed => call.arg.staged
       /\ (\E i \in 1..Len(ret.value.ran) : ret.value.ran[i] = "commit")
            => (call.arg.staged \/ call.arg.diff # "ok")
       /\ Cardinality({i \in 1..Len(ret.value.ran) : ret.value.ran[i] = "push"}) <= 2
       /\ Cardinality({i \in 1..Len(ret.value.ran) : ret.value.ran[i] = "pull"}) <= 1
       /\ \A i \in 1..Len(ret.value.ran) :
            ret.value.ran[i] = "pull"
              => /\ i > 1
                 /\ ret.value.ran[i - 1] = "push"
                 /\ call.arg.push1 # "ok"
                 /\ \A j \in 1..(i - 2) : ret.value.ran[j] # "push"
       /\ call.arg.add # "ok"
            => ret.value.ran = <<"add">> /\ ret.value.warning = "git add failed"
       /\ (ret.value.ran # << >> /\ ret.value.ran[Len(ret.value.ran)] = "commit")
            = (ret.value.warning = "git commit failed")
       /\ (ret.value.warning = "git commit failed")
            => (call.arg.commit # "ok" \/ ~call.arg.staged)
       /\ (ret.value.committed /\ call.arg.push1 # "ok" /\ call.arg.push2 # "ok")
            = (ret.value.warning = "git push failed after rebase")
       /\ ret.value.warning \in {"none", "git add failed", "git commit failed",
                                 "git push failed after rebase"}

C20_Witness ==
  /\ call # None
  /\ call.fn = "sync_workspace_to_github"
  /\ call.arg.staged
  /\ call.arg.push1 = "fail"
  /\ call.arg.pull = "fail"
  /\ call.arg.push2 = "ok"
  /\ ret # None
  /\ ret.value = Synced(<<"add", "diff", "commit", "push", "pull", "push">>, "none", TRUE)

\* C25: when sync_workspace_to_github returns without having logged a warning,
\* origin has every commit of the workspace's branch
C25_QuietSyncLeavesNothingUnpushed ==
  (call # None /\ call.fn = "sync_workspace_to_github" /\ ret # None
     /\ ret.value.warning = "none")
    => Unpushed(call.arg, ret.value) = 0

\* C21: outside code regions a line becomes a bullet (the marker replaced by
\* the bullet character, the leading white space kept) exactly when its
\* content after the leading white space begins with an asterisk and a space;
\* the bold rewrites make no bullet of another line (stated for the lines that
\* hold a letter)
C21_BulletExactlyForMarker ==
  (/\ call # None
   /\ call.fn = "markdown_to_slack"
   /\ ret # None
   /\ \A i \in 1..Len(call.arg) : call.arg[i] \in {"*", " ", "x"}
   /\ \E i \in 1..Len(call.arg) : call.arg[i] = "x")
    => IF /\ RunLen(call.arg, {" "}) + 2 <= Len(call.arg)
          /\ call.arg[RunLen(call.arg, {" "}) + 1] = "*"
          /\ call.arg[RunLen(call.arg, {" "}) + 2] = " "
       THEN /\ Len(ret.value) > RunLen(call.arg, {" "})
            /\ \A i \in 1..RunLen(call.arg, {" "}) : ret.value[i] = " "
            /\ ret.value[RunLen(call.arg, {" "}) + 1] = "U+2022"
       ELSE \A i \in 1..Len(ret.value) : ret.value[i] # "U+2022"

====
